---- MODULE Spec2Model ----
(***************************************************************************)
(* A model of law/sandbox/base.py: the sandbox proxy run (SandboxProxy),   *)
(* the environment cache (Sandbox.env / Sandbox._envs) and the lazy        *)
(* sandbox resolution of a task (SandboxTask._initialize_sandbox).         *)
(***************************************************************************)
EXTENDS Integers, Sequences, FiniteSets, TLC

VARIABLES
    \* ---- SandboxProxy.run ----
    pc,             \* position of the control flow inside SandboxProxy.run
    log,            \* the observable events of the run, in order
    task,           \* the task of the proxy: hooks, masks, inputs, outputs, config
    stagein_info,   \* sandbox_inst.stagein_info
    stageout_info,  \* sandbox_inst.stageout_info
    local_stageout, \* the local variable stageout_info of run()
    flat_orig,      \* flat_sandbox_inputs / flat_sandbox_outputs
    flat_staged,    \* flat_staged_inputs / flat_staged_outputs
    code,           \* <<c>> once sandbox_inst.run returned exit code c
    err,            \* the exception that is propagating / was raised by run()
    existing,       \* paths of the staged outputs that the subprocess produced
    copies,         \* the copy operations performed, in order
    warnings,       \* the paths stage-out warned about
    \* ---- Sandbox.env ----
    _envs,          \* Sandbox._envs: cache key -> cached env
    threads,        \* the threads that access Sandbox.env
    tpc,            \* per thread: position inside the env property
    tinst,          \* per thread: the sandbox instance whose env is accessed
    tval,           \* per thread: the value its create_env() call returned
    tmiss,          \* per thread: the cache key was missing at line 197
    creates,        \* the cache key each create_env() call built a value for
    accesses,       \* the finished accesses of Sandbox.env, in order
    \* ---- SandboxTask ----
    _sandbox_switched,     \* LAW_SANDBOX_SWITCHED == "1"
    _current_sandbox,      \* LAW_SANDBOX split at ","
    registry,              \* the subclasses of Sandbox
    tcls,                  \* the task: sandbox, valid_sandboxes, ...
    _sandbox_initialized,
    _effective_sandbox,
    _sandbox_inst,
    _sandbox_proxy,
    resolution,            \* how the last run of the resolution body ended
    counts,                \* resolution bodies run, Sandbox.new and
                           \* fallback_sandbox calls, operations so far
    last,                  \* the last operation on the task and its outcome
    \* ---- the class methods of Sandbox on keys ----
    kpc,            \* "parts": a type and a name to join; "ready": a key
                    \* to call a method on; "done": the method was called
    kparts,         \* the type and the name given to join_key
    kkey,           \* the key the methods are called on
    kres,           \* the call made on kkey and its outcome
    \* ---- entering a sandbox: Sandbox._get_env and the module start-up ----
    epc,            \* "ready": a sandbox; "env": _get_env returned; "started":
                    \* the module was loaded by the process in the sandbox
    esandbox,       \* the sandbox: key, task, config section, sandbox_env
    eenv,           \* the variables _get_env wrote: defaults and result
    estart          \* what loading the module in the sandbox gave

runVars == <<pc, log, task, stagein_info, stageout_info, local_stageout,
             flat_orig, flat_staged, code, err, existing, copies, warnings>>

envVars == <<_envs, threads, tpc, tinst, tval, tmiss, creates, accesses>>

taskVars == <<_sandbox_switched, _current_sandbox, registry, tcls,
              _sandbox_initialized, _effective_sandbox, _sandbox_inst,
              _sandbox_proxy, resolution, counts, last>>

keyVars == <<kpc, kparts, kkey, kres>>

entryVars == <<epc, esandbox, eenv, estart>>

vars == <<runVars, envVars, taskVars, keyVars, entryVars>>

\* ------------------------------------------------------------------------
\* values

None == [kind |-> "None"]

\* law.util.no_value: the falsy placeholder returned by mask_struct
NoValue == [kind |-> "no_value"]

Leaf(dir, base, ub) ==
    [kind |-> "leaf", path |-> <<dir, base>>, unique_basename |-> ub]

Coll(targets) == [kind |-> "coll", targets |-> targets]

List(items) == [kind |-> "list", items |-> items]

Dict(keys, vals) == [kind |-> "dict", keys |-> keys, items |-> vals]

IsContainer(s) == s.kind \in {"list", "dict"}

\* masks as returned by sandbox_stagein / sandbox_stageout: a bool, or bools
\* over the entries of a list or dict
True == [kind |-> "True"]
False == [kind |-> "False"]
Mask(bs) == [kind |-> "mask", items |-> bs]

\* truth value of a Python object, as `if not x` sees it
Truthy(x) ==
    CASE x.kind \in {"None", "no_value", "False"} -> FALSE
      [] x.kind \in {"list", "dict", "mask"} -> Len(x.items) > 0
      [] OTHER -> TRUE

RECURSIVE ConcatAll(_)
ConcatAll(ss) == IF ss = <<>> THEN <<>> ELSE Head(ss) \o ConcatAll(Tail(ss))

\* law.util.flatten: lists and dict values are flattened recursively, any
\* other object (a target, a TargetCollection) is one element
RECURSIVE flatten(_)
flatten(s) ==
    IF IsContainer(s)
    THEN ConcatAll([i \in 1..Len(s.items) |-> flatten(s.items[i])])
    ELSE <<s>>

\* TargetCollection._flat_target_list
flat_target_list(c) == flatten(c.targets)

\* law.util.mask_struct, for a bool mask or a mask of bools over the entries
\* of a list or dict
mask_struct(mask, s) ==
    IF mask.kind \in {"True", "False"} \/ ~IsContainer(s)
    THEN IF Truthy(mask) THEN s ELSE NoValue
    ELSE LET keep == SelectSeq([i \in 1..Len(s.items) |-> i],
                        LAMBDA i : i > Len(mask.items) \/ mask.items[i])
             kept == [j \in 1..Len(keep) |-> s.items[keep[j]]]
         IN  IF kept = <<>> THEN NoValue
             ELSE IF s.kind = "list" THEN List(kept)
             ELSE Dict([j \in 1..Len(keep) |-> s.keys[keep[j]]], kept)

\* create_staged_target naming the staged file after the plain basename
create_staged_target_basename(stage_dir, target) ==
    Leaf(stage_dir, target.path[2], target.unique_basename)

\* create_staged_target: the child of stage_dir named after the unique
\* basename of the target
create_staged_target(stage_dir, target) ==
    Leaf(stage_dir, target.unique_basename, target.unique_basename)

\* create_staged_target_struct: map_struct with a custom mapping for
\* TargetCollection
RECURSIVE create_staged_target_struct(_, _)
create_staged_target_struct(stage_dir, s) ==
    CASE s.kind = "leaf" -> create_staged_target(stage_dir, s)
      [] s.kind = "coll" ->
            Coll(create_staged_target_struct(stage_dir, s.targets))
      [] s.kind = "list" ->
            List([i \in 1..Len(s.items) |->
                    create_staged_target_struct(stage_dir, s.items[i])])
      [] s.kind = "dict" ->
            Dict(s.keys, [i \in 1..Len(s.items) |->
                    create_staged_target_struct(stage_dir, s.items[i])])

StageInfo(targets, stage_dir, staged_targets) ==
    [kind |-> "StageInfo", targets |-> targets, stage_dir |-> stage_dir,
     staged_targets |-> staged_targets]

\* ------------------------------------------------------------------------
\* the inputs of the model of SandboxProxy.run

A == Leaf("store", "a", "h1_a")
B == Leaf("store", "b", "h2_b")
C == Leaf("other", "a", "h3_a")

TargetStructs ==
    { A,
      List(<<A, B>>),
      Dict(<<"x", "y">>, <<Coll(List(<<A, B>>)), C>>) }

\* what the task's sandbox_stagein() / sandbox_stageout() return
Masks == { False, True, Mask(<<TRUE, FALSE>>), Mask(<<FALSE, FALSE>>) }

SandboxKeys == { <<"bash", "env.sh">>, <<"docker", "img">> }

\* exit codes of the sandboxed subprocess (negative: killed by a signal)
ExitCodes == { 0, 1, 17, -9 }

Tasks ==
    [ before_callable : BOOLEAN,
      after_callable : BOOLEAN,
      key : SandboxKeys,
      stagein_dir_name : { "", "stagein" },
      stagein_mask : Masks,
      input : TargetStructs,
      stageout_dir_name : { "", "stageout" },
      stageout_mask : Masks,
      output : TargetStructs ]

Raised(where) == [kind |-> "raised", where |-> where]

\* the exception of run() for a non-zero exit code: the message holds the
\* sandbox key and the code
SandboxFailed(key, c) == [kind |-> "sandbox_failed", key |-> key, code |-> c]

\* no proxy is running
NoTask == { [kind |-> "None"] }

RunInit(tasks) ==
    /\ pc = IF tasks = NoTask THEN "off" ELSE "before_run"
    /\ log = <<>>
    /\ task \in tasks
    /\ stagein_info = None
    /\ stageout_info = None
    /\ local_stageout = None
    /\ flat_orig = <<>>
    /\ flat_staged = <<>>
    /\ code = <<>>
    /\ err = None
    /\ existing = {}
    /\ copies = <<>>
    /\ warnings = <<>>

\* ------------------------------------------------------------------------
\* SandboxProxy.run, one action per step of the method

\* (mutant) stage-out is prepared before the inputs are staged in
After_swapped(p) ==
    CASE p = "before_run" -> "prepare_stageout"
      [] p = "prepare_stageout" -> "stagein"
      [] p = "stagein" -> "cmd"
      [] p = "cmd" -> "enter"
      [] p = "enter" -> "run"
      [] p = "run" -> "check_code"
      [] p = "check_code" -> "leave"
      [] p = "leave" -> "stageout"
      [] p = "stageout" -> "after_run"
      [] p = "after_run" -> "done"

\* the statements of run() in program order: where control goes when the
\* statement at p completes without raising
After(p) ==
    CASE p = "before_run" -> "stagein"
      [] p = "stagein" -> "prepare_stageout"
      [] p = "prepare_stageout" -> "cmd"
      [] p = "cmd" -> "enter"
      [] p = "enter" -> "run"
      [] p = "run" -> "check_code"
      [] p = "check_code" -> "leave"
      [] p = "leave" -> "stageout"
      [] p = "stageout" -> "after_run"
      [] p = "after_run" -> "done"

\* (mutant) only positive exit codes count as a failure
Failed_positive(c) == c > 0

\* if code != 0
Failed(c) == c # 0

\* an exception leaves run(): nothing after the raising call is executed
Raise(e) ==
    /\ pc' = "failed"
    /\ err' = e

\* before_run hook
BeforeRun ==
    /\ pc = "before_run"
    /\ UNCHANGED <<envVars, taskVars, keyVars, entryVars>>
    /\ \/ /\ task.before_callable
          /\ log' = Append(log, "before_run")
          /\ \/ pc' = After("before_run") /\ err' = err
             \/ Raise(Raised("before_run"))
       \/ /\ ~task.before_callable
          /\ log' = log
          /\ pc' = After("before_run") /\ err' = err
    /\ UNCHANGED <<task, stagein_info, stageout_info, local_stageout,
                   flat_orig, flat_staged, code, existing, copies, warnings>>

\* stagein() without the checks of the mask
StageinTargets_nomask ==
    IF task.stagein_dir_name = "" THEN None ELSE task.input

\* the masked inputs of stagein(), None when stagein() returns early
StageinTargets ==
    IF task.stagein_dir_name = "" THEN None
    ELSE IF ~Truthy(task.stagein_mask) THEN None
    ELSE IF ~Truthy(mask_struct(task.stagein_mask, task.input)) THEN None
    ELSE mask_struct(task.stagein_mask, task.input)

\* stagein() up to the copy loop
StageinBegin ==
    /\ pc = "stagein"
    /\ UNCHANGED <<envVars, taskVars, keyVars, entryVars>>
    /\ IF StageinTargets = None
       THEN /\ pc' = After("stagein")
            /\ log' = log \o <<"stagein", "stagein_done">>
            /\ UNCHANGED <<flat_orig, flat_staged>>
       ELSE /\ pc' = "stagein_loop"
            /\ log' = Append(log, "stagein")
            /\ flat_orig' = flatten(StageinTargets)
            /\ flat_staged' = flatten(create_staged_target_struct(
                                  task.stagein_dir_name, StageinTargets))
    /\ UNCHANGED <<task, stagein_info, stageout_info, local_stageout,
                   code, err, existing, copies, warnings>>

\* the while loop of stagein() with the members of a staged collection put
\* at the end of the staged list
StageinStep_append ==
    /\ pc = "stagein_loop"
    /\ UNCHANGED <<envVars, taskVars, keyVars, entryVars>>
    /\ flat_orig # <<>>
    /\ LET sandbox_input == Head(flat_orig)
           staged_input == Head(flat_staged)
       IN  IF sandbox_input.kind = "coll"
           THEN /\ flat_orig' = flat_target_list(sandbox_input) \o Tail(flat_orig)
                /\ flat_staged' = Tail(flat_staged) \o flat_target_list(staged_input)
                /\ UNCHANGED <<pc, err, log, copies>>
           ELSE /\ flat_orig' = Tail(flat_orig)
                /\ flat_staged' = Tail(flat_staged)
                /\ log' = Append(log, "stagein_copy")
                /\ \/ /\ copies' = Append(copies,
                            [op |-> "copy_to_local", src |-> sandbox_input.path,
                             dst |-> staged_input.path])
                      /\ UNCHANGED <<pc, err>>
                   \/ /\ copies' = copies
                      /\ Raise(Raised("stagein"))
    /\ UNCHANGED <<task, stagein_info, stageout_info, local_stageout,
                   code, existing, warnings>>

\* one round of the while loop of stagein()
StageinStep ==
    /\ pc = "stagein_loop"
    /\ UNCHANGED <<envVars, taskVars, keyVars, entryVars>>
    /\ flat_orig # <<>>
    /\ LET sandbox_input == Head(flat_orig)
           staged_input == Head(flat_staged)
       IN  IF sandbox_input.kind = "coll"
           THEN /\ flat_orig' = flat_target_list(sandbox_input) \o Tail(flat_orig)
                /\ flat_staged' = flat_target_list(staged_input) \o Tail(flat_staged)
                /\ UNCHANGED <<pc, err, log, copies>>
           ELSE /\ flat_orig' = Tail(flat_orig)
                /\ flat_staged' = Tail(flat_staged)
                /\ log' = Append(log, "stagein_copy")
                /\ \/ /\ copies' = Append(copies,
                            [op |-> "copy_to_local", src |-> sandbox_input.path,
                             dst |-> staged_input.path])
                      /\ UNCHANGED <<pc, err>>
                   \/ /\ copies' = copies
                      /\ Raise(Raised("stagein"))
    /\ UNCHANGED <<task, stagein_info, stageout_info, local_stageout,
                   code, existing, warnings>>

\* stagein() returns the StageInfo, run() hands it to the sandbox
StageinEnd ==
    /\ pc = "stagein_loop"
    /\ UNCHANGED <<envVars, taskVars, keyVars, entryVars>>
    /\ flat_orig = <<>>
    /\ stagein_info' = StageInfo(StageinTargets, task.stagein_dir_name,
                           create_staged_target_struct(task.stagein_dir_name,
                                                       StageinTargets))
    /\ pc' = After("stagein")
    /\ log' = Append(log, "stagein_done")
    /\ UNCHANGED <<task, stageout_info, local_stageout, flat_orig,
                   flat_staged, code, err, existing, copies, warnings>>

\* the masked outputs of prepare_stageout(), None when it returns early
StageoutTargets ==
    IF task.stageout_dir_name = "" THEN None
    ELSE IF ~Truthy(task.stageout_mask) THEN None
    ELSE IF ~Truthy(mask_struct(task.stageout_mask, task.output)) THEN None
    ELSE mask_struct(task.stageout_mask, task.output)

prepare_stageout ==
    IF StageoutTargets = None THEN None
    ELSE StageInfo(StageoutTargets, task.stageout_dir_name,
             create_staged_target_struct(task.stageout_dir_name, StageoutTargets))

\* prepare stage-out
PrepareStageout ==
    /\ pc = "prepare_stageout"
    /\ UNCHANGED <<envVars, taskVars, keyVars, entryVars>>
    /\ log' = Append(log, "prepare_stageout")
    /\ local_stageout' = prepare_stageout
    /\ stageout_info' = IF Truthy(prepare_stageout) THEN prepare_stageout
                        ELSE stageout_info
    /\ pc' = After("prepare_stageout")
    /\ UNCHANGED <<task, stagein_info, flat_orig, flat_staged, code, err,
                   existing, copies, warnings>>

\* create the actual command to run: the backend's cmd() may raise
BuildCmd ==
    /\ pc = "cmd"
    /\ UNCHANGED <<envVars, taskVars, keyVars, entryVars>>
    /\ log' = Append(log, "cmd")
    /\ \/ pc' = After("cmd") /\ err' = err
       \/ Raise(Raised("cmd"))
    /\ UNCHANGED <<task, stagein_info, stageout_info, local_stageout,
                   flat_orig, flat_staged, code, existing, copies, warnings>>

\* _run_context up to the yield
EnterContext ==
    /\ pc = "enter"
    /\ UNCHANGED <<envVars, taskVars, keyVars, entryVars>>
    /\ log' = Append(log, "entering sandbox")
    /\ pc' = After("enter")
    /\ UNCHANGED <<task, stagein_info, stageout_info, local_stageout,
                   flat_orig, flat_staged, code, err, existing, copies, warnings>>

\* the leaves of a staged structure, collections opened
RECURSIVE Leaves(_)
Leaves(flat) ==
    IF flat = <<>> THEN <<>>
    ELSE IF Head(flat).kind = "coll"
         THEN Leaves(flat_target_list(Head(flat)) \o Tail(flat))
         ELSE <<Head(flat)>> \o Leaves(Tail(flat))

StagedOutputPaths ==
    IF local_stageout = None THEN {}
    ELSE LET ls == Leaves(flatten(local_stageout.staged_targets))
         IN  { ls[i].path : i \in 1..Len(ls) }

\* sandbox_inst.run(cmd): the env lookup or the popen call raises, or the
\* subprocess runs and exits with some code, having written some outputs
SandboxRun ==
    /\ pc = "run"
    /\ UNCHANGED <<envVars, taskVars, keyVars, entryVars>>
    /\ \/ /\ log' = Append(log, "run_raised")
          /\ err' = Raised("run")
          /\ pc' = After("check_code")
          /\ UNCHANGED <<code, existing>>
       \/ \E c \in ExitCodes, produced \in SUBSET StagedOutputPaths :
            /\ log' = log \o <<"subprocess_start", "subprocess_exit">>
            /\ code' = <<c>>
            /\ existing' = produced
            /\ pc' = After("run")
            /\ err' = err
    /\ UNCHANGED <<task, stagein_info, stageout_info, local_stageout,
                   flat_orig, flat_staged, copies, warnings>>

\* if code != 0: raise Exception(...)
CheckCode ==
    /\ pc = "check_code"
    /\ UNCHANGED <<envVars, taskVars, keyVars, entryVars>>
    /\ err' = IF Failed(code[1]) THEN SandboxFailed(task.key, code[1]) ELSE err
    /\ pc' = After("check_code")
    /\ UNCHANGED <<log, task, stagein_info, stageout_info, local_stageout,
                   flat_orig, flat_staged, code, existing, copies, warnings>>

\* (mutant) the context manager swallows the exception of its body
LeaveContext_swallow ==
    /\ pc = "leave"
    /\ UNCHANGED <<envVars, taskVars, keyVars, entryVars>>
    /\ log' = Append(log, "leaving sandbox")
    /\ pc' = After("leave")
    /\ UNCHANGED <<task, stagein_info, stageout_info, local_stageout,
                   flat_orig, flat_staged, code, err, existing, copies, warnings>>

\* (mutant) no try/finally around the yield: the end banner is only printed
\* when the body did not raise
LeaveContext_nofinally ==
    /\ pc = "leave"
    /\ UNCHANGED <<envVars, taskVars, keyVars, entryVars>>
    /\ log' = IF err # None THEN log ELSE Append(log, "leaving sandbox")
    /\ pc' = IF err # None THEN "failed" ELSE After("leave")
    /\ UNCHANGED <<task, stagein_info, stageout_info, local_stageout,
                   flat_orig, flat_staged, code, err, existing, copies, warnings>>

\* the finally clause of _run_context, then the with statement is left:
\* a propagating exception ends run()
LeaveContext ==
    /\ pc = "leave"
    /\ UNCHANGED <<envVars, taskVars, keyVars, entryVars>>
    /\ log' = Append(log, "leaving sandbox")
    /\ pc' = IF err # None THEN "failed" ELSE After("leave")
    /\ UNCHANGED <<task, stagein_info, stageout_info, local_stageout,
                   flat_orig, flat_staged, code, err, existing, copies, warnings>>

\* if stageout_info: self.stageout(stageout_info), up to the copy loop
StageoutBegin ==
    /\ pc = "stageout"
    /\ UNCHANGED <<envVars, taskVars, keyVars, entryVars>>
    /\ IF Truthy(local_stageout)
       THEN /\ pc' = "stageout_loop"
            /\ log' = Append(log, "stageout")
            /\ flat_orig' = flatten(local_stageout.targets)
            /\ flat_staged' = flatten(local_stageout.staged_targets)
       ELSE /\ pc' = After("stageout")
            /\ UNCHANGED <<log, flat_orig, flat_staged>>
    /\ UNCHANGED <<task, stagein_info, stageout_info, local_stageout,
                   code, err, existing, copies, warnings>>

\* the while loop of stageout() raising on a staged output that is missing
StageoutStep_raise ==
    /\ pc = "stageout_loop"
    /\ UNCHANGED <<envVars, taskVars, keyVars, entryVars>>
    /\ flat_orig # <<>>
    /\ LET sandbox_output == Head(flat_orig)
           staged_output == Head(flat_staged)
       IN  IF sandbox_output.kind = "coll"
           THEN /\ flat_orig' = flat_target_list(sandbox_output) \o Tail(flat_orig)
                /\ flat_staged' = flat_target_list(staged_output) \o Tail(flat_staged)
                /\ UNCHANGED <<pc, err, log, copies, warnings>>
           ELSE /\ flat_orig' = Tail(flat_orig)
                /\ flat_staged' = Tail(flat_staged)
                /\ IF staged_output.path \in existing
                   THEN /\ log' = Append(log, "stageout_copy")
                        /\ warnings' = warnings
                        /\ copies' = Append(copies,
                                    [op |-> "copy_from_local",
                                     src |-> staged_output.path,
                                     dst |-> sandbox_output.path])
                        /\ UNCHANGED <<pc, err>>
                   ELSE /\ UNCHANGED <<log, copies, warnings>>
                        /\ Raise(Raised("stageout"))
    /\ UNCHANGED <<task, stagein_info, stageout_info, local_stageout,
                   code, existing>>

\* one round of the while loop of stageout()
StageoutStep ==
    /\ pc = "stageout_loop"
    /\ UNCHANGED <<envVars, taskVars, keyVars, entryVars>>
    /\ flat_orig # <<>>
    /\ LET sandbox_output == Head(flat_orig)
           staged_output == Head(flat_staged)
       IN  IF sandbox_output.kind = "coll"
           THEN /\ flat_orig' = flat_target_list(sandbox_output) \o Tail(flat_orig)
                /\ flat_staged' = flat_target_list(staged_output) \o Tail(flat_staged)
                /\ UNCHANGED <<pc, err, log, copies, warnings>>
           ELSE /\ flat_orig' = Tail(flat_orig)
                /\ flat_staged' = Tail(flat_staged)
                /\ IF staged_output.path \in existing
                   THEN /\ log' = Append(log, "stageout_copy")
                        /\ warnings' = warnings
                        /\ \/ /\ copies' = Append(copies,
                                    [op |-> "copy_from_local",
                                     src |-> staged_output.path,
                                     dst |-> sandbox_output.path])
                              /\ UNCHANGED <<pc, err>>
                           \/ /\ copies' = copies
                              /\ Raise(Raised("stageout"))
                   ELSE /\ warnings' = Append(warnings, staged_output.path)
                        /\ UNCHANGED <<pc, err, log, copies>>
    /\ UNCHANGED <<task, stagein_info, stageout_info, local_stageout,
                   code, existing>>

StageoutEnd ==
    /\ pc = "stageout_loop"
    /\ UNCHANGED <<envVars, taskVars, keyVars, entryVars>>
    /\ flat_orig = <<>>
    /\ pc' = After("stageout")
    /\ log' = Append(log, "stageout_done")
    /\ UNCHANGED <<task, stagein_info, stageout_info, local_stageout,
                   flat_orig, flat_staged, code, err, existing, copies, warnings>>

\* after_run hook
AfterRun ==
    /\ pc = "after_run"
    /\ UNCHANGED <<envVars, taskVars, keyVars, entryVars>>
    /\ \/ /\ task.after_callable
          /\ log' = Append(log, "after_run")
          /\ \/ pc' = After("after_run") /\ err' = err
             \/ Raise(Raised("after_run"))
       \/ /\ ~task.after_callable
          /\ log' = log
          /\ pc' = After("after_run") /\ err' = err
    /\ UNCHANGED <<task, stagein_info, stageout_info, local_stageout,
                   flat_orig, flat_staged, code, existing, copies, warnings>>

RunNext ==
    \/ BeforeRun
    \/ StageinBegin
    \/ StageinStep
    \/ StageinEnd
    \/ PrepareStageout
    \/ BuildCmd
    \/ EnterContext
    \/ SandboxRun
    \/ CheckCode
    \/ LeaveContext
    \/ StageoutBegin
    \/ StageoutStep
    \/ StageoutEnd
    \/ AfterRun

\* ------------------------------------------------------------------------
\* Sandbox.env and the class-level cache Sandbox._envs

MaxAccess == 3

Threads == {"t1", "t2"}

\* sandbox instances: two of the same type and env_cache_key, one of another
\* type with the same env_cache_key, one of the same type with another key
Instances ==
    { [id |-> "s1", sandbox_type |-> "bash", env_cache_key |-> "k1"],
      [id |-> "s2", sandbox_type |-> "bash", env_cache_key |-> "k1"],
      [id |-> "s3", sandbox_type |-> "docker", env_cache_key |-> "k1"] }

NoInst == [id |-> "none", sandbox_type |-> "", env_cache_key |-> ""]

\* cache_key = (self.sandbox_type, self.env_cache_key)
cache_key(inst) == <<inst.sandbox_type, inst.env_cache_key>>

\* (mutant) the cache is not consulted
Missing_always(key) == TRUE

\* cache_key not in self._envs
Missing(key) == key \notin DOMAIN _envs

\* self._envs[cache_key] = value
Put(envs, key, value) ==
    [k \in DOMAIN envs \cup {key} |-> IF k = key THEN value ELSE envs[k]]

EnvInit(ts) ==
    /\ _envs = <<>>
    /\ threads = ts
    /\ tpc = [t \in Threads |-> "idle"]
    /\ tinst = [t \in Threads |-> NoInst]
    /\ tval = [t \in Threads |-> 0]
    /\ tmiss = [t \in Threads |-> FALSE]
    /\ creates = <<>>
    /\ accesses = <<>>

InFlight == Cardinality({ t \in Threads : tpc[t] # "idle" })

Finish(t, called, ok, value) ==
    /\ accesses' = Append(accesses,
            [thread |-> t, inst |-> tinst[t].id, key |-> cache_key(tinst[t]),
             called |-> called, ok |-> ok, value |-> value])
    /\ tpc' = [tpc EXCEPT ![t] = "idle"]
    /\ tinst' = [tinst EXCEPT ![t] = NoInst]
    /\ tval' = [tval EXCEPT ![t] = 0]
    /\ tmiss' = [tmiss EXCEPT ![t] = FALSE]

\* a thread reads the env property of an instance: lines 195 and 197
EnvAccess(t, inst) ==
    /\ tpc[t] = "idle"
    /\ UNCHANGED <<runVars, taskVars, keyVars, entryVars>>
    /\ Len(accesses) + InFlight < MaxAccess
    /\ tinst' = [tinst EXCEPT ![t] = inst]
    /\ tmiss' = [tmiss EXCEPT ![t] = Missing(cache_key(inst))]
    /\ tpc' = [tpc EXCEPT ![t] =
                  IF Missing(cache_key(inst)) THEN "create" ELSE "return"]
    /\ UNCHANGED <<_envs, threads, tval, creates, accesses>>

\* (mutant) a failed create_env() leaves an entry in the cache
EnvCreate_cachefail(t) ==
    /\ tpc[t] = "create"
    /\ UNCHANGED <<runVars, taskVars, keyVars, entryVars>>
    /\ \/ /\ Finish(t, TRUE, FALSE, 0)
          /\ _envs' = Put(_envs, cache_key(tinst[t]), 0)
          /\ UNCHANGED <<threads, creates>>
       \/ /\ creates' = Append(creates, cache_key(tinst[t]))
          /\ tval' = [tval EXCEPT ![t] = Len(creates) + 1]
          /\ tpc' = [tpc EXCEPT ![t] = "store"]
          /\ UNCHANGED <<_envs, threads, tinst, tmiss, accesses>>

\* self.create_env(): raises, or builds a new env (each call a new object)
EnvCreate(t) ==
    /\ tpc[t] = "create"
    /\ UNCHANGED <<runVars, taskVars, keyVars, entryVars>>
    /\ \/ /\ Finish(t, TRUE, FALSE, 0)
          /\ UNCHANGED <<_envs, threads, creates>>
       \/ /\ creates' = Append(creates, cache_key(tinst[t]))
          /\ tval' = [tval EXCEPT ![t] = Len(creates) + 1]
          /\ tpc' = [tpc EXCEPT ![t] = "store"]
          /\ UNCHANGED <<_envs, threads, tinst, tmiss, accesses>>

\* self._envs[cache_key] = <the value create_env returned>
EnvStore(t) ==
    /\ tpc[t] = "store"
    /\ UNCHANGED <<runVars, taskVars, keyVars, entryVars>>
    /\ _envs' = Put(_envs, cache_key(tinst[t]), tval[t])
    /\ tpc' = [tpc EXCEPT ![t] = "return"]
    /\ UNCHANGED <<threads, tinst, tval, tmiss, creates, accesses>>

\* return self._envs[cache_key]
EnvReturn(t) ==
    /\ tpc[t] = "return"
    /\ UNCHANGED <<runVars, taskVars, keyVars, entryVars>>
    /\ Finish(t, tmiss[t], TRUE, _envs[cache_key(tinst[t])])
    /\ UNCHANGED <<_envs, threads, creates>>

EnvNext ==
    \/ \E t \in threads, inst \in Instances : EnvAccess(t, inst)
    \/ \E t \in threads : EnvCreate(t)
    \/ \E t \in threads : EnvStore(t)
    \/ \E t \in threads : EnvReturn(t)

\* ------------------------------------------------------------------------
\* sandbox keys: strings are sequences of characters

\* Sandbox.delimiter
delimiter == <<":", ":">>

\* law.parameter.NO_STR
NO_STR == <<"N", "O", "_", "S", "T", "R">>

\* None, where a string can stand
PyNone == <<"None">>

Contains(str, ch) == \E i \in DOMAIN str : str[i] = ch

\* str.strip() of the blanks at both ends
RECURSIVE strip(_)
strip(str) ==
    IF str = <<>> THEN <<>>
    ELSE IF Head(str) = " " THEN strip(Tail(str))
    ELSE IF str[Len(str)] = " " THEN strip(SubSeq(str, 1, Len(str) - 1))
    ELSE str

\* str.split(delimiter, 1)
split1(str) ==
    LET at == { i \in 1..(Len(str) - 1) : str[i] = ":" /\ str[i + 1] = ":" }
    IN  IF at = {} THEN <<str>>
        ELSE LET i == CHOOSE x \in at : \A y \in at : x <= y
             IN  <<SubSeq(str, 1, i - 1), SubSeq(str, i + 2, Len(str))>>

\* check_key accepting every key
check_key_any(key) == TRUE

\* Sandbox.check_key: TRUE, or FALSE where it raises ValueError
check_key(key) == ~Contains(key, ",")

\* Sandbox.check_key(key, silent): the value returned or the exception
CheckKey(key, silent) ==
    IF check_key(key) THEN [raised |-> "none", value |-> TRUE]
    ELSE IF silent THEN [raised |-> "none", value |-> FALSE]
    ELSE [raised |-> "format", value |-> FALSE]

\* split_key without the check for blank parts
split_key_noblank(key) ==
    IF Len(split1(key)) # 2 THEN <<>> ELSE split1(key)

\* Sandbox.split_key: the parts, or <<>> where it raises ValueError
split_key(key) ==
    LET parts == split1(key)
    IN  IF Len(parts) # 2 \/ \E i \in DOMAIN parts : strip(parts[i]) = <<>>
        THEN <<>>
        ELSE parts

\* Sandbox.join_key
join_key(type, name) == type \o delimiter \o name

\* Sandbox.remove_type: the key without its type, or the exception of
\* check_key; steps are the calls made
remove_type(key) ==
    IF ~check_key(key)
    THEN [raised |-> "format", value |-> <<>>, steps |-> <<"check_key">>]
    ELSE [raised |-> "none", value |-> split1(key)[Len(split1(key))],
          steps |-> <<"check_key", "split">>]

\* ------------------------------------------------------------------------
\* Sandbox.new and the subclasses of Sandbox

\* the walk over the direct subclasses of Sandbox only
RECURSIVE FindClass_direct(_, _)
FindClass_direct(classes, type) ==
    IF classes = <<>> THEN ""
    ELSE IF registry[Head(classes)].sandbox_type = type THEN Head(classes)
    ELSE FindClass_direct(Tail(classes), type)

\* the walk going down into the subclasses of a class before its siblings
RECURSIVE FindClass_depth(_, _)
FindClass_depth(classes, type) ==
    IF classes = <<>> THEN ""
    ELSE LET _cls == registry[Head(classes)]
         IN  IF _cls.sandbox_type = type THEN Head(classes)
             ELSE FindClass_depth(_cls.subclasses \o Tail(classes), type)

\* the first class, in the order of the walk over the subclasses, whose
\* sandbox_type equals type; "" when the walk ends without one
RECURSIVE FindClass(_, _)
FindClass(classes, type) ==
    IF classes = <<>> THEN ""
    ELSE LET _cls == registry[Head(classes)]
         IN  IF _cls.sandbox_type = type THEN Head(classes)
             ELSE FindClass(Tail(classes) \o _cls.subclasses, type)

NoSandbox == [kind |-> "None"]

\* Sandbox.new(key, task): the instance, or the exception it raises; steps
\* are the calls made, in order
SandboxNew(key, serial) ==
    IF ~check_key(key)
    THEN [raised |-> "format", inst |-> NoSandbox, steps |-> <<"check_key">>]
    ELSE IF split_key(key) = <<>>
    THEN [raised |-> "format", inst |-> NoSandbox,
          steps |-> <<"check_key", "split_key">>]
    ELSE LET type == split_key(key)[1]
             name == split_key(key)[2]
             found == FindClass(registry["Sandbox"].subclasses, type)
         IN  IF found = ""
             THEN [raised |-> "unknown_type", inst |-> NoSandbox,
                   steps |-> <<"check_key", "split_key", "lookup">>]
             ELSE [raised |-> "none",
                   inst |-> [kind |-> "Sandbox", cls |-> found,
                             sandbox_type |-> registry[found].sandbox_type,
                             name |-> name, serial |-> serial],
                   steps |-> <<"check_key", "split_key", "lookup",
                               "instantiate">>]

\* Sandbox.key
key_of(inst) == join_key(inst.sandbox_type, inst.name)

\* (mutant) only the first entry of LAW_SANDBOX is looked at
is_active_first(inst) == key_of(inst) = _current_sandbox[1]

\* no sandbox counts as the active one
is_active_never(inst) == FALSE

\* Sandbox.is_active
is_active(inst) ==
    \E i \in DOMAIN _current_sandbox : _current_sandbox[i] = key_of(inst)

\* ------------------------------------------------------------------------
\* SandboxTask

\* fnmatch of a name against a pattern: a trailing "*" matches any rest
fnmatch(name, pattern) ==
    IF pattern # <<>> /\ pattern[Len(pattern)] = "*"
    THEN /\ Len(name) >= Len(pattern) - 1
         /\ SubSeq(name, 1, Len(pattern) - 1) = SubSeq(pattern, 1, Len(pattern) - 1)
    ELSE name = pattern

\* law.util.multi_match(name, patterns, mode=any)
multi_match(name, patterns) ==
    \E i \in DOMAIN patterns : fnmatch(name, patterns[i])

KeyBX == <<"b", ":", ":", "x">>
KeyDY == <<"d", ":", ":", "y">>

\* the values of LAW_SANDBOX_SWITCHED and LAW_SANDBOX a process can start
\* with: in a sandbox the first entry of LAW_SANDBOX is not empty
Ambients ==
    { [switched |-> FALSE, current |-> << <<>> >>],
      [switched |-> FALSE, current |-> <<KeyBX>>],
      [switched |-> FALSE, current |-> <<KeyBX, KeyDY>>],
      [switched |-> TRUE, current |-> <<KeyBX>>],
      [switched |-> TRUE, current |-> <<KeyDY, KeyBX>>] }

Class(type, subclasses) == [sandbox_type |-> type, subclasses |-> subclasses]

\* class trees: backends b and d, the second one below an abstract class;
\* backend b alone
Registries ==
    { [c \in {"Sandbox", "B", "Abstract", "D"} |->
        CASE c = "Sandbox" -> Class(PyNone, <<"B", "Abstract">>)
          [] c = "B" -> Class(<<"b">>, <<>>)
          [] c = "Abstract" -> Class(PyNone, <<"D">>)
          [] c = "D" -> Class(<<"d">>, <<>>)],
      [c \in {"Sandbox", "B"} |->
        CASE c = "Sandbox" -> Class(PyNone, <<"B">>)
          [] c = "B" -> Class(<<"b">>, <<>>)] }

\* task classes and parameter values
TaskClasses ==
    [ sandbox : {NO_STR, KeyBX, KeyDY, <<"b">>},
      is_param : BOOLEAN,
      valid_sandboxes : { << <<"*">> >>, << <<"b", ":", ":", "*">> >> },
      allow_empty_sandbox : BOOLEAN,
      fallback : {PyNone, NO_STR, KeyDY} ]

MaxOps == 3

TaskStart(ambients, classes, registries) ==
    /\ \E a \in ambients :
          /\ _sandbox_switched = a.switched
          /\ _current_sandbox = a.current
    /\ registry \in registries
    /\ tcls \in classes
    /\ _sandbox_initialized = FALSE
    /\ _effective_sandbox = PyNone
    /\ _sandbox_inst = NoSandbox
    /\ _sandbox_proxy = NoSandbox
    /\ resolution = "not_run"
    /\ counts = [resolve |-> 0, new |-> 0, fallback |-> 0, ops |-> 0]
    /\ last = [op |-> "none", force |-> FALSE, raised |-> "none",
               sandboxed |-> FALSE]

TaskInit(ambients, classes) == TaskStart(ambients, classes, Registries)

\* (mutant) _sandbox_initialized is not looked at
Skip_never(force) == FALSE

\* if self._sandbox_initialized and not force: return
Skip(force) == _sandbox_initialized /\ ~force

\* fallback_sandbox is called: lines 538 to 542
CallsFallback ==
    /\ ~_sandbox_switched
    /\ tcls.is_param
    /\ ~multi_match(tcls.sandbox, tcls.valid_sandboxes)

\* lines 533 to 546: the value of _effective_sandbox before the empty check
ChosenSandbox ==
    IF _sandbox_switched THEN _current_sandbox[1]
    ELSE IF tcls.is_param
    THEN IF multi_match(tcls.sandbox, tcls.valid_sandboxes)
         THEN tcls.sandbox
         ELSE tcls.fallback
    ELSE tcls.sandbox

\* x in (None, NO_STR)
IsEmpty(x) == x \in {PyNone, NO_STR}

\* (mutant) only None counts as a missing sandbox
MustRaiseMissing_none(x) == x = PyNone /\ ~tcls.allow_empty_sandbox

\* lines 549 to 551: the sandbox is empty and must not be
MustRaiseMissing(x) == IsEmpty(x) /\ ~tcls.allow_empty_sandbox

\* self.effective_sandbox == NO_STR or not self.sandbox_inst
is_sandboxed(effective, inst) == effective = NO_STR \/ inst = NoSandbox

\* what operation op returns where it is is_sandboxed(); for env: it
\* returns os.environ, as is_sandboxed() is true
sandboxed(op, effective, inst) ==
    op \in {"is_sandboxed", "env"} /\ is_sandboxed(effective, inst)

\* _initialize_sandbox(force), called by operation op: the whole method
InitializeSandbox(force, op) ==
    IF Skip(force)
    THEN /\ last' = [op |-> op, force |-> force, raised |-> "none",
                     sandboxed |-> sandboxed(op, _effective_sandbox, _sandbox_inst)]
         /\ counts' = [counts EXCEPT !.ops = @ + 1]
         /\ UNCHANGED <<_sandbox_initialized, _effective_sandbox,
                        _sandbox_inst, _sandbox_proxy, resolution>>
    ELSE LET chosen == ChosenSandbox
             effective == IF IsEmpty(chosen) /\ ~MustRaiseMissing(chosen)
                          THEN NO_STR ELSE chosen
             new == SandboxNew(effective, counts.resolve + 1)
             outcome == IF MustRaiseMissing(chosen) THEN "missing"
                        ELSE IF IsEmpty(effective) THEN "none"
                        ELSE new.raised
             created == /\ outcome = "none"
                        /\ ~IsEmpty(effective)
                        /\ ~is_active(new.inst)
         IN  /\ _sandbox_initialized' = TRUE
             /\ _effective_sandbox' = effective
             /\ _sandbox_inst' = IF created THEN new.inst ELSE NoSandbox
             /\ _sandbox_proxy' =
                    IF created
                    THEN [kind |-> "SandboxProxy", serial |-> counts.resolve + 1]
                    ELSE NoSandbox
             /\ resolution' = IF outcome = "none" THEN "ok" ELSE outcome
             /\ counts' = [resolve |-> counts.resolve + 1,
                           new |-> counts.new +
                               (IF outcome \in {"missing"} \/ IsEmpty(effective)
                                THEN 0 ELSE 1),
                           fallback |-> counts.fallback +
                               (IF CallsFallback THEN 1 ELSE 0),
                           ops |-> counts.ops + 1]
             /\ last' = [op |-> op, force |-> force, raised |-> outcome,
                         sandboxed |->
                            IF outcome = "none"
                            THEN sandboxed(op, effective,
                                     IF created THEN new.inst ELSE NoSandbox)
                            ELSE FALSE]

\* the properties effective_sandbox, sandbox_inst and sandbox_proxy
Access(prop) ==
    /\ counts.ops < MaxOps
    /\ InitializeSandbox(FALSE, prop)
    /\ UNCHANGED <<_sandbox_switched, _current_sandbox, registry, tcls>>
    /\ UNCHANGED <<runVars, envVars, keyVars, entryVars>>

\* _initialize_sandbox(force=True)
ForceInitialize ==
    /\ counts.ops < MaxOps
    /\ InitializeSandbox(TRUE, "_initialize_sandbox")
    /\ UNCHANGED <<_sandbox_switched, _current_sandbox, registry, tcls>>
    /\ UNCHANGED <<runVars, envVars, keyVars, entryVars>>

\* is_sandboxed(): its first property access runs the resolution
IsSandboxed ==
    /\ counts.ops < MaxOps
    /\ InitializeSandbox(FALSE, "is_sandboxed")
    /\ UNCHANGED <<_sandbox_switched, _current_sandbox, registry, tcls>>
    /\ UNCHANGED <<runVars, envVars, keyVars, entryVars>>

\* the property env: is_sandboxed() decides between os.environ and the env
\* of the sandbox
Env ==
    /\ counts.ops < MaxOps
    /\ InitializeSandbox(FALSE, "env")
    /\ UNCHANGED <<_sandbox_switched, _current_sandbox, registry, tcls>>
    /\ UNCHANGED <<runVars, envVars, keyVars, entryVars>>

TaskNext ==
    \/ \E prop \in {"effective_sandbox", "sandbox_inst", "sandbox_proxy"} :
          Access(prop)
    \/ ForceInitialize
    \/ IsSandboxed
    \/ Env

\* no task
TaskOff ==
    TaskInit({ [switched |-> FALSE, current |-> << <<>> >>] },
             { CHOOSE c \in TaskClasses : TRUE })
    /\ registry = CHOOSE r \in Registries : TRUE

\* ------------------------------------------------------------------------
\* the class methods of Sandbox called on keys

\* the characters of the keys: two letters, the colon of the delimiter,
\* the comma and the blank
Alphabet == { "b", "d", ":", ",", " " }

MaxKeyLen == 5

MaxPartLen == 2

Strings(n) == UNION { [1..k -> Alphabet] : k \in 0..n }

\* the order in which the class statements of the backends ran
ClassOrder == <<"Sandbox", "B", "Abstract", "D", "D2">>

\* the class trees of Registries, and one in which two backends have the
\* type d: D, defined first, below an abstract class, and D2, defined after
\* it, directly below Sandbox
KeyRegistries ==
    Registries \cup
    { [c \in {"Sandbox", "Abstract", "D", "D2"} |->
        CASE c = "Sandbox" -> Class(PyNone, <<"Abstract", "D2">>)
          [] c = "Abstract" -> Class(PyNone, <<"D">>)
          [] c = "D" -> Class(<<"d">>, <<>>)
          [] c = "D2" -> Class(<<"d">>, <<>>)] }

NoCall == [op |-> "none"]

KeyOff ==
    /\ kpc = "off"
    /\ kparts = <<>>
    /\ kkey = <<>>
    /\ kres = NoCall

\* a key to call the methods on, or a type and a name to join first
KeyInit ==
    /\ kres = NoCall
    /\ \/ /\ kpc = "ready"
          /\ kparts = <<>>
          /\ kkey \in Strings(MaxKeyLen)
       \/ /\ kpc = "parts"
          /\ kparts \in Strings(MaxPartLen) \X Strings(MaxPartLen)
          /\ kkey = <<>>

\* join_key(type, name)
JoinKeyCall ==
    /\ kpc = "parts"
    /\ kkey' = join_key(kparts[1], kparts[2])
    /\ kpc' = "ready"
    /\ UNCHANGED <<kparts, kres>>
    /\ UNCHANGED <<runVars, envVars, taskVars, entryVars>>

\* check_key(key, silent)
CheckKeyCall(silent) ==
    /\ kpc = "ready"
    /\ kres' = [op |-> "check_key", silent |-> silent,
                out |-> CheckKey(kkey, silent)]
    /\ kpc' = "done"
    /\ UNCHANGED <<kparts, kkey>>
    /\ UNCHANGED <<runVars, envVars, taskVars, entryVars>>

\* split_key(key)
SplitKeyCall ==
    /\ kpc = "ready"
    /\ kres' = [op |-> "split_key",
                raised |-> IF split_key(kkey) = <<>> THEN "format" ELSE "none",
                parts |-> split_key(kkey)]
    /\ kpc' = "done"
    /\ UNCHANGED <<kparts, kkey>>
    /\ UNCHANGED <<runVars, envVars, taskVars, entryVars>>

\* remove_type(key)
RemoveTypeCall ==
    /\ kpc = "ready"
    /\ kres' = [op |-> "remove_type", out |-> remove_type(kkey)]
    /\ kpc' = "done"
    /\ UNCHANGED <<kparts, kkey>>
    /\ UNCHANGED <<runVars, envVars, taskVars, entryVars>>

\* Sandbox.new(key)
NewCall ==
    /\ kpc = "ready"
    /\ kres' = [op |-> "new", out |-> SandboxNew(kkey, 1)]
    /\ kpc' = "done"
    /\ UNCHANGED <<kparts, kkey>>
    /\ UNCHANGED <<runVars, envVars, taskVars, entryVars>>

KeyNext ==
    \/ JoinKeyCall
    \/ \E silent \in BOOLEAN : CheckKeyCall(silent)
    \/ SplitKeyCall
    \/ RemoveTypeCall
    \/ NewCall

\* ------------------------------------------------------------------------

\* entering a sandbox: Sandbox._get_env and the start-up of the module

\* str.replace("$", r"\$")
RECURSIVE escape(_)
escape(str) ==
    IF str = <<>> THEN <<>>
    ELSE (IF Head(str) = "$" THEN <<"\\", "$">> ELSE <<Head(str)>>)
            \o escape(Tail(str))

\* os.getenv(name, "")
getenv(environ, name) ==
    IF name \in DOMAIN environ THEN environ[name] ELSE <<>>

\* os.environ of the process that enters the sandbox
os_environ == "HOME" :> <<"/", "h">>

\* the sandbox has no task
NoOwner == [kind |-> "None"]

\* the tasks of a sandbox: _worker_id and _worker_first_task_id are <<>>
\* where the attribute is missing, None or empty
OwnerTasks ==
    [ kind : { "task" },
      live_task_id : { <<"t", "1">> },
      root_task_id : { <<"t", "0">> },
      is_root_task : BOOLEAN,
      _worker_id : { <<>>, <<"w", "1">> },
      _worker_first_task_id : { <<>>, <<"t", "0">> } ]

\* the items of the env section of the config: none, a value for a
\* variable, a variable without value
ConfigItems ==
    { <<>>,
      << [name |-> "LAW_SANDBOX_WORKER_ID", value |-> <<"w", "9">>] >>,
      << [name |-> "HOME", value |-> PyNone] >> }

\* what task.sandbox_env(env) returns: nothing, or variables to set
SandboxEnvs ==
    { <<>>, "LAW_SANDBOX_WORKER_FIRST_TASK_ID" :> <<"t", "9">> }

Sandboxes ==
    [ sandbox_type : { <<"b">> },
      name : { <<"x">>, <<"$", "x">> },
      task : OwnerTasks,
      items : ConfigItems,
      sandbox_env : SandboxEnvs ]
    \cup
    [ sandbox_type : { <<"b">> },
      name : { <<"x">>, <<"$", "x">> },
      task : { NoOwner },
      items : ConfigItems,
      sandbox_env : { <<>> } ]

\* dict.update: the entries of new replace those of env
Update(env, new) == new @@ env

\* _get_env, lines 234 to 244: the default sandboxing variables
DefaultEnv(sandbox) ==
    LET t == sandbox.task
        base == ("LAW_SANDBOX" :> escape(key_of(sandbox)))
                   @@ ("LAW_SANDBOX_SWITCHED" :> <<"1">>)
        ids == ("LAW_SANDBOX_TASK_ID" :> t.live_task_id)
                  @@ ("LAW_SANDBOX_ROOT_TASK_ID" :> t.root_task_id)
                  @@ ("LAW_SANDBOX_IS_ROOT_TASK" :>
                         IF t.is_root_task THEN <<"1">> ELSE <<"0">>)
        worker == IF t._worker_id # <<>>
                  THEN "LAW_SANDBOX_WORKER_ID" :> t._worker_id ELSE <<>>
        first == IF t._worker_first_task_id # <<>>
                 THEN "LAW_SANDBOX_WORKER_FIRST_TASK_ID" :> t._worker_first_task_id
                 ELSE <<>>
    IN  IF t = NoOwner THEN base
        ELSE Update(Update(Update(base, ids), worker), first)

\* _get_env, lines 247 to 257: the variables of the config section, a
\* variable without value taken from the current environment
RECURSIVE ConfigEnv(_, _)
ConfigEnv(env, items) ==
    IF items = <<>> THEN env
    ELSE ConfigEnv(
             Update(env, Head(items).name :>
                 (IF Head(items).value # PyNone THEN Head(items).value
                  ELSE getenv(os_environ, Head(items).name))),
             Tail(items))

\* Sandbox._get_env: the default variables and the variables returned
_get_env(sandbox) ==
    LET env == ConfigEnv(DefaultEnv(sandbox), sandbox.items)
    IN  [defaults |-> DefaultEnv(sandbox),
         env |-> IF sandbox.task # NoOwner /\ sandbox.sandbox_env # <<>>
                 THEN Update(env, sandbox.sandbox_env)
                 ELSE env]

\* str.split(",")[0]
FirstEntry(str) ==
    LET at == { i \in DOMAIN str : str[i] = "," }
    IN  IF at = {} THEN str
        ELSE SubSeq(str, 1, (CHOOSE i \in at : \A j \in at : i <= j) - 1)

\* the module start-up, lines 37 to 63: "none", or the variable whose
\* emptiness raises the exception
StartUpCheck(environ) ==
    IF getenv(environ, "LAW_SANDBOX_SWITCHED") # <<"1">> THEN "none"
    ELSE IF FirstEntry(getenv(environ, "LAW_SANDBOX")) = <<>>
    THEN "LAW_SANDBOX"
    ELSE IF getenv(environ, "LAW_SANDBOX_TASK_ID") = <<>>
    THEN "LAW_SANDBOX_TASK_ID"
    ELSE IF getenv(environ, "LAW_SANDBOX_WORKER_ID") = <<>>
    THEN "LAW_SANDBOX_WORKER_ID"
    ELSE IF getenv(environ, "LAW_SANDBOX_WORKER_FIRST_TASK_ID") = <<>>
    THEN "LAW_SANDBOX_WORKER_FIRST_TASK_ID"
    ELSE "none"

NoEnv == [defaults |-> <<>>, env |-> <<>>]

NotStarted == [raised |-> "not_started", switched |-> FALSE]

EntryOff ==
    /\ epc = "off"
    /\ esandbox = NoOwner
    /\ eenv = NoEnv
    /\ estart = NotStarted

EntryInit ==
    /\ epc = "ready"
    /\ esandbox \in Sandboxes
    /\ eenv = NoEnv
    /\ estart = NotStarted

\* the env of the sandbox is built
GetEnv ==
    /\ epc = "ready"
    /\ eenv' = _get_env(esandbox)
    /\ epc' = "env"
    /\ UNCHANGED <<esandbox, estart>>
    /\ UNCHANGED <<runVars, envVars, taskVars, keyVars>>

\* the process in the sandbox, started with the variables of _get_env,
\* loads the module
StartUp ==
    /\ epc = "env"
    /\ estart' = [raised |-> StartUpCheck(eenv.env),
                  switched |-> getenv(eenv.env, "LAW_SANDBOX_SWITCHED") = <<"1">>]
    /\ epc' = "started"
    /\ UNCHANGED <<esandbox, eenv>>
    /\ UNCHANGED <<runVars, envVars, taskVars, keyVars>>

EntryNext == GetEnv \/ StartUp

\* ------------------------------------------------------------------------

\* the staging of structures with collections and colliding basenames

\* a target whose unique basename is that of A, and two more targets
D == Leaf("third", "a", "h1_a")
E == Leaf("store", "e", "h5_e")
F == Leaf("store", "f", "h6_f")

\* a mapping of two keys holding five leaves, three of them in a collection
FiveLeaves == Dict(<<"x", "y">>, <<Coll(List(<<A, B, C>>)), List(<<E, F>>)>>)

StageStructs ==
    { List(<<A, B>>),
      List(<<A, D>>),
      FiveLeaves }

StageTasks ==
    [ before_callable : { FALSE },
      after_callable : BOOLEAN,
      key : { <<"bash", "env.sh">> },
      stagein_dir_name : { "", "stagein" },
      stagein_mask : Masks,
      input : StageStructs,
      stageout_dir_name : { "", "stageout" },
      stageout_mask : Masks,
      output : StageStructs ]

\* ------------------------------------------------------------------------
\* specifications

\* one run of SandboxProxy.run
Init == RunInit(Tasks) /\ EnvInit({}) /\ TaskOff /\ KeyOff /\ EntryOff

Next == RunNext

Spec == Init /\ [][Next]_vars

\* one run of SandboxProxy.run staging structures with collections
InitStage == RunInit(StageTasks) /\ EnvInit({}) /\ TaskOff /\ KeyOff /\ EntryOff

SpecStage == InitStage /\ [][Next]_vars

\* one thread accessing Sandbox.env of several sandbox instances
InitEnvSeq == EnvInit({"t1"}) /\ RunInit(NoTask) /\ TaskOff /\ KeyOff /\ EntryOff

SpecEnvSeq == InitEnvSeq /\ [][EnvNext]_vars

\* the threads of concurrently running tasks accessing Sandbox.env
InitEnvConc == EnvInit(Threads) /\ RunInit(NoTask) /\ TaskOff /\ KeyOff /\ EntryOff

SpecEnvConc == InitEnvConc /\ [][EnvNext]_vars

\* the sandbox resolution of one task instance
InitTask ==
    TaskInit(Ambients, TaskClasses) /\ RunInit(NoTask) /\ EnvInit({}) /\ KeyOff /\ EntryOff

SpecTask == InitTask /\ [][TaskNext]_vars

\* the class methods of Sandbox called on one key
InitKey ==
    /\ KeyInit
    /\ RunInit(NoTask)
    /\ EnvInit({})
    /\ TaskStart({ [switched |-> FALSE, current |-> << <<>> >>] },
                 { CHOOSE c \in TaskClasses : TRUE }, KeyRegistries)
    /\ EntryOff

SpecKey == InitKey /\ [][KeyNext]_vars

\* a sandbox is entered: _get_env, then the start-up of the module in it
InitEntry ==
    /\ EntryInit
    /\ RunInit(NoTask)
    /\ EnvInit({})
    /\ TaskOff
    /\ KeyOff

SpecEntry == InitEntry /\ [][EntryNext]_vars

\* ------------------------------------------------------------------------
\* properties of SandboxProxy.run

Count(e) == Cardinality({ i \in DOMAIN log : log[i] = e })

Logged(e) == \E i \in DOMAIN log : log[i] = e

Terminal == pc \in {"done", "failed"}

\* the position of an event in the order of the phases of run()
Rank(e) ==
    CASE e = "before_run" -> 1
      [] e = "stagein" -> 2
      [] e = "stagein_copy" -> 3
      [] e = "stagein_done" -> 4
      [] e = "prepare_stageout" -> 5
      [] e = "cmd" -> 6
      [] e = "entering sandbox" -> 7
      [] e = "run_raised" -> 8
      [] e = "subprocess_start" -> 8
      [] e = "subprocess_exit" -> 9
      [] e = "leaving sandbox" -> 10
      [] e = "stageout" -> 11
      [] e = "stageout_copy" -> 12
      [] e = "stageout_done" -> 13
      [] e = "after_run" -> 14

Repeatable == {"stagein_copy", "stageout_copy"}

\* the events that must have happened before an event can happen
Requires(e) ==
    CASE e \in {"stagein_copy", "stagein_done"} -> {"stagein"}
      [] e = "prepare_stageout" -> {"stagein_done"}
      [] e = "cmd" -> {"stagein_done", "prepare_stageout"}
      [] e \in {"subprocess_start", "run_raised", "entering sandbox"} ->
            {"stagein_done", "prepare_stageout", "cmd"}
      [] e = "subprocess_exit" -> {"subprocess_start"}
      [] e \in {"stageout", "stageout_copy", "stageout_done"} ->
            {"stagein_done", "prepare_stageout", "cmd", "subprocess_exit"}
      [] e = "after_run" ->
            {"stagein_done", "prepare_stageout", "cmd", "subprocess_exit"}
      [] OTHER -> {}

\* C1: the phases of run() happen one after another in the order before_run,
\* stage-in, stage-out preparation, command build, subprocess, stage-out
\* copy, after_run: the log of every run is ordered by phase, no phase is
\* entered twice, and a phase only happens after the phases before it; in
\* particular the subprocess starts after stage-in is done and every
\* stage-out copy comes after the exit of the subprocess.
C1_PhasesInOrder ==
    /\ \A i, j \in DOMAIN log :
          i < j => /\ Rank(log[i]) <= Rank(log[j])
                   /\ (Rank(log[i]) = Rank(log[j]) => log[i] \in Repeatable)
    /\ \A i \in DOMAIN log :
          \A r \in Requires(log[i]) : \E k \in 1..(i - 1) : log[k] = r
    /\ (Logged("stagein") /\ task.before_callable) => log[1] = "before_run"
    /\ pc \in {"stagein", "stagein_loop"} => ~Logged("subprocess_start")
    /\ pc = "run" => ~Logged("stageout_copy")

\* a complete successful run with stage-in and stage-out copies
C1_Witness ==
    /\ pc = "done"
    /\ Logged("before_run") /\ Logged("stagein_copy")
    /\ Logged("stageout_copy") /\ Logged("after_run")

\* C2: when the subprocess exits with a non-zero code c, run() fails with an
\* error holding the sandbox key and c, and the stage-out copy phase is not
\* entered, even when stage-out was prepared.
C2_NonZeroExitFails ==
    (code # <<>> /\ code[1] # 0) =>
        /\ pc # "done"
        /\ ~Logged("stageout") /\ ~Logged("stageout_copy")
        /\ pc \notin {"stageout", "stageout_loop", "after_run"}
        /\ copies = <<>> \/ \A i \in DOMAIN copies : copies[i].op = "copy_to_local"
        /\ warnings = <<>>
        /\ Terminal => /\ pc = "failed"
                       /\ err = SandboxFailed(task.key, code[1])

\* the subprocess exited with -9 or 17 after stage-out was prepared
C2_Witness ==
    /\ pc = "failed"
    /\ code \in {<<17>>, <<-9>>}
    /\ Truthy(local_stageout)
    /\ existing # {}

\* C3 as stated: after_run fires in every run in which the subprocess was
\* started, whatever its outcome (read for a callable hook and with no
\* collaborator raising).
C3_AfterRunAlways ==
    (Terminal /\ Logged("subprocess_start") /\ task.after_callable
        /\ err.kind # "raised")
        => Logged("after_run")

\* C3 amended: a callable after_run hook is invoked exactly once in the runs
\* in which the subprocess exited with code 0 and stage-out did not raise,
\* and in no other run: not after a non-zero exit code and not after an
\* exception of sandbox_inst.run or of the stage-out copy.
C3_AfterRunOnSuccessOnly ==
    /\ Count("after_run") <= 1
    /\ Logged("after_run") =>
          /\ task.after_callable
          /\ code = <<0>>
          /\ Logged("leaving sandbox")
          /\ Truthy(local_stageout) => Logged("stageout_done")
    /\ Terminal =>
          (Logged("after_run") <=>
              /\ task.after_callable
              /\ code = <<0>>
              /\ err \in {None, Raised("after_run")})

\* a run whose subprocess failed ended without the hook, with the hook callable
C3_Witness ==
    /\ pc = "failed"
    /\ task.after_callable
    /\ err.kind = "sandbox_failed"
    /\ ~Logged("after_run")

\* C4: in every run that reaches sandbox_inst.run, 'entering sandbox' is
\* emitted before the subprocess starts and 'leaving sandbox' exactly once
\* after it ended, on success, on a non-zero exit code and on an exception
\* alike; no finished run has an 'entering' without a 'leaving'.
C4_MarkersAroundRun ==
    /\ Count("entering sandbox") <= 1
    /\ Count("leaving sandbox") <= Count("entering sandbox")
    /\ \A i \in DOMAIN log :
          log[i] \in {"subprocess_start", "run_raised"} =>
              \E k \in 1..(i - 1) : log[k] = "entering sandbox"
    /\ \A i \in DOMAIN log :
          log[i] = "leaving sandbox" =>
              \E k \in 1..(i - 1) : log[k] \in {"subprocess_exit", "run_raised"}
    /\ Terminal => Count("leaving sandbox") = Count("entering sandbox")
    /\ (Terminal /\ (code # <<>> \/ err = Raised("run"))) =>
          Count("leaving sandbox") = 1

\* a failed run (exit code or exception) that printed both banners
C4_Witness ==
    /\ pc = "failed"
    /\ err \in {Raised("run"), SandboxFailed(task.key, 17)}
    /\ Count("entering sandbox") = 1
    /\ Count("leaving sandbox") = 1

\* ------------------------------------------------------------------------
\* properties of Sandbox.env

\* the threads that are between a successful create_env() and their return
Storing(k) ==
    { t \in Threads : /\ tpc[t] \in {"store", "return"}
                      /\ tmiss[t]
                      /\ cache_key(tinst[t]) = k }

\* the accesses whose create_env() call returned a value for key k
Created(k) ==
    { i \in DOMAIN accesses :
        accesses[i].key = k /\ accesses[i].called /\ accesses[i].ok }

CacheKeys == { <<i.sandbox_type, i.env_cache_key>> : i \in Instances }

\* C5: one thread, any instances sharing (sandbox_type, env_cache_key): once
\* create_env has returned for the key it is not called again for it, every
\* later access returns the same object, and the successful accesses of one
\* key hold exactly one create_env call that returned.
C5_CreateOncePerKey ==
    /\ \A i, j \in DOMAIN accesses :
          (i < j /\ accesses[i].key = accesses[j].key /\ accesses[i].ok) =>
              /\ ~accesses[j].called
              /\ accesses[j].ok
              /\ accesses[j].value = accesses[i].value
    /\ \A k \in CacheKeys :
          /\ Cardinality(Created(k)) + Cardinality(Storing(k)) <= 1
          /\ (\E i \in DOMAIN accesses : accesses[i].key = k /\ accesses[i].ok)
                => Cardinality(Created(k)) = 1

\* after a failed access, instance s1 created the env and instance s2 of the
\* same type and key got the same object without a create_env call
C5_Witness ==
    /\ Len(accesses) = 3
    /\ ~accesses[1].ok
    /\ accesses[2].inst = "s1" /\ accesses[2].called /\ accesses[2].ok
    /\ accesses[3].inst = "s2" /\ ~accesses[3].called
    /\ accesses[3].value = accesses[2].value

\* C6 as stated: with concurrent accesses at most one create_env call is
\* performed per key and a cached value that an access returned is never
\* replaced by a later computation.
C6_OneCreatePerKeyConcurrent ==
    /\ \A k \in CacheKeys :
          Cardinality({ v \in DOMAIN creates : creates[v] = k }) <= 1
    /\ \A i \in DOMAIN accesses :
          accesses[i].ok => _envs[accesses[i].key] = accesses[i].value

\* C6 amended: with concurrent accesses each thread performs at most one
\* successful create_env call per key, namely in an access that found the key
\* missing, so a key is computed at most once per thread that missed it
\* before the first store; every value returned or cached for a key was
\* built for that key, and a key that is cached stays cached.
C6_OneCreatePerKeyPerThread ==
    /\ \A k \in CacheKeys, t \in Threads :
          Cardinality({ i \in Created(k) : accesses[i].thread = t })
            + Cardinality(Storing(k) \cap {t}) <= 1
    /\ \A k \in CacheKeys :
          Cardinality({ v \in DOMAIN creates : creates[v] = k })
            <= Cardinality(threads)
    /\ \A i \in DOMAIN accesses :
          accesses[i].ok =>
              /\ accesses[i].key \in DOMAIN _envs
              /\ creates[accesses[i].value] = accesses[i].key
    /\ \A k \in DOMAIN _envs : creates[_envs[k]] = k

\* two threads both computed the env of the same key, and the value the
\* first one returned has been replaced in the cache
C6_Witness ==
    \E i, j \in DOMAIN accesses :
        /\ i < j
        /\ accesses[i].key = accesses[j].key
        /\ accesses[i].thread # accesses[j].thread
        /\ accesses[i].called /\ accesses[i].ok
        /\ accesses[j].called /\ accesses[j].ok
        /\ _envs[accesses[i].key] # accesses[i].value

\* C7: a create_env() that raises stores nothing: a key whose create_env
\* calls all raised has no cache entry, and the next access with that key
\* calls create_env again.
C7_FailureNotCached ==
    /\ \A k \in CacheKeys :
          (Created(k) = {} /\ Storing(k) = {}) => k \notin DOMAIN _envs
    /\ \A i, j \in DOMAIN accesses :
          (/\ i < j
           /\ accesses[i].key = accesses[j].key
           /\ accesses[i].called /\ ~accesses[i].ok
           /\ \A m \in (i + 1)..(j - 1) : accesses[m].key # accesses[i].key)
              => accesses[j].called

\* create_env raised twice for a key, the third access computed the env
C7_Witness ==
    /\ Len(accesses) = 3
    /\ \A i \in 1..3 : accesses[i].key = <<"bash", "k1">> /\ accesses[i].called
    /\ ~accesses[1].ok /\ ~accesses[2].ok /\ accesses[3].ok
    /\ <<"bash", "k1">> \in DOMAIN _envs

\* ------------------------------------------------------------------------
\* properties of SandboxTask

resolved == <<_effective_sandbox, _sandbox_inst, _sandbox_proxy, resolution>>

\* C8: the sandbox of a task is resolved by the first access and by no later
\* non-forced access: a non-forced access of an initialized task leaves
\* _effective_sandbox, _sandbox_inst and _sandbox_proxy as they are and calls
\* neither Sandbox.new nor fallback_sandbox; the first access and every
\* _initialize_sandbox(force=True) run the resolution once.
C8_ResolvedOnce ==
    [][ IF _sandbox_initialized /\ ~last'.force
        THEN /\ UNCHANGED resolved
             /\ counts'.resolve = counts.resolve
             /\ counts'.new = counts.new
             /\ counts'.fallback = counts.fallback
        ELSE /\ counts'.resolve = counts.resolve + 1
             /\ _sandbox_initialized'
             /\ counts'.new <= counts.new + 1
             /\ counts'.fallback <= counts.fallback + 1 ]_vars

\* access, forced resolution, access: the sandbox built by the forced
\* resolution is still the one of the task
C8_Witness ==
    /\ counts.ops = 3
    /\ counts.resolve = 2
    /\ counts.new = 2
    /\ ~last.force
    /\ _sandbox_inst # NoSandbox
    /\ _sandbox_inst.serial = 2
    /\ _sandbox_proxy # NoSandbox

InCurrentSandbox(key) ==
    \E i \in DOMAIN _current_sandbox : _current_sandbox[i] = key

\* C9: a task whose resolution succeeded with a sandbox key that is in the
\* ambient list _current_sandbox (as it is for every task resolved in a
\* process that switched into a sandbox) has no sandbox instance and no
\* proxy, and is_sandboxed() is true.
C9_ActiveSandboxRunsDirect ==
    (/\ resolution = "ok"
     /\ _sandbox_switched \/ InCurrentSandbox(_effective_sandbox))
        => /\ _sandbox_inst = NoSandbox
           /\ _sandbox_proxy = NoSandbox
           /\ is_sandboxed(_effective_sandbox, _sandbox_inst)
           /\ last.op = "is_sandboxed" => last.sandboxed

\* inside a sandbox that is the one the task names: is_sandboxed() said yes
C9_Witness ==
    /\ _sandbox_switched
    /\ resolution = "ok"
    /\ _effective_sandbox = tcls.sandbox
    /\ InCurrentSandbox(tcls.sandbox)
    /\ last.op = "is_sandboxed" /\ last.sandboxed
    /\ _sandbox_inst = NoSandbox /\ _sandbox_proxy = NoSandbox

\* C10 as stated: outside a sandbox, an empty designation with
\* allow_empty_sandbox false makes the resolution fail, whatever
\* valid_sandboxes and fallback_sandbox are, and the task never ends up with
\* a resolved sandbox (any error is accepted here as the failure).
C10_EmptyAlwaysMissing ==
    (/\ ~_sandbox_switched
     /\ IsEmpty(tcls.sandbox)
     /\ ~tcls.allow_empty_sandbox
     /\ _sandbox_initialized)
        => /\ resolution # "ok"
           /\ _sandbox_inst = NoSandbox
           /\ _sandbox_proxy = NoSandbox

\* the hook fallback_sandbox replaces the designation by a non-empty one
FallbackSubstitutes ==
    /\ tcls.is_param
    /\ ~multi_match(tcls.sandbox, tcls.valid_sandboxes)
    /\ ~IsEmpty(tcls.fallback)

\* C10 amended: outside a sandbox, an empty designation with
\* allow_empty_sandbox false makes the resolution fail with the missing
\* sandbox error and leaves the task without sandbox instance and proxy,
\* unless the designation is a parameter value that valid_sandboxes does not
\* match and fallback_sandbox returns a non-empty designation: then the
\* fallback is the effective sandbox and no missing sandbox error is raised.
C10_EmptyMissingUnlessFallback ==
    (/\ ~_sandbox_switched
     /\ IsEmpty(tcls.sandbox)
     /\ ~tcls.allow_empty_sandbox
     /\ _sandbox_initialized)
        => IF FallbackSubstitutes
           THEN /\ resolution # "missing"
                /\ _effective_sandbox = tcls.fallback
           ELSE /\ resolution = "missing"
                /\ _sandbox_inst = NoSandbox
                /\ _sandbox_proxy = NoSandbox

\* the empty designation matched valid_sandboxes and the resolution failed
C10_Witness ==
    /\ ~_sandbox_switched
    /\ tcls.sandbox = NO_STR
    /\ tcls.is_param
    /\ multi_match(tcls.sandbox, tcls.valid_sandboxes)
    /\ tcls.fallback = KeyDY
    /\ ~tcls.allow_empty_sandbox
    /\ resolution = "missing"
    /\ last.raised = "missing"

\* ------------------------------------------------------------------------
\* properties of the staging

\* the leaves of a structure in the order of its positions, the members of
\* a collection at the position of the collection
RECURSIVE LeafSeq(_)
LeafSeq(s) ==
    CASE s.kind = "leaf" -> <<s>>
      [] s.kind = "coll" -> LeafSeq(s.targets)
      [] OTHER -> ConcatAll([i \in 1..Len(s.items) |-> LeafSeq(s.items[i])])

InCopies == SelectSeq(copies, LAMBDA c : c.op = "copy_to_local")

OutCopies == SelectSeq(copies, LAMBDA c : c.op = "copy_from_local")

IsPrefix(s, t) == Len(s) <= Len(t) /\ \A i \in 1..Len(s) : s[i] = t[i]

\* the copies of a stage-in of the structure orig staged as staged
InPairs(orig, staged) ==
    [i \in 1..Len(LeafSeq(orig)) |->
        [op |-> "copy_to_local", src |-> LeafSeq(orig)[i].path,
         dst |-> LeafSeq(staged)[i].path]]

\* the positions among the first n leaves whose staged leaf exists or not
Present(staged, n) ==
    SelectSeq([i \in 1..n |-> i],
              LAMBDA i : LeafSeq(staged)[i].path \in existing)

Absent(staged, n) ==
    SelectSeq([i \in 1..n |-> i],
              LAMBDA i : LeafSeq(staged)[i].path \notin existing)

\* the copies of a stage-out of the first n leaves
OutPairs(orig, staged, n) ==
    [j \in 1..Len(Present(staged, n)) |->
        [op |-> "copy_from_local",
         src |-> LeafSeq(staged)[Present(staged, n)[j]].path,
         dst |-> LeafSeq(orig)[Present(staged, n)[j]].path]]

\* C11: stagein and stageout visit the leaves of the original and of the
\* staged structure in lockstep, the members of a collection at the
\* position of the collection: the i-th copy of a stage-in pairs the i-th
\* leaf with the i-th staged leaf, a finished stage-in has made one copy
\* per leaf, a finished stage-out has handled every leaf once (a copy or a
\* warning), and no copy has a collection as its source or destination
C11_LockstepLeaves ==
    /\ pc = "stagein_loop" \/ err = Raised("stagein") =>
          IsPrefix(InCopies,
                   InPairs(StageinTargets,
                           create_staged_target_struct(task.stagein_dir_name,
                                                       StageinTargets)))
    /\ stagein_info # None =>
          /\ Len(LeafSeq(stagein_info.targets))
                = Len(LeafSeq(stagein_info.staged_targets))
          /\ InCopies = InPairs(stagein_info.targets,
                                stagein_info.staged_targets)
          /\ Len(InCopies) = Len(LeafSeq(stagein_info.targets))
    /\ stagein_info = None /\ pc # "stagein_loop" /\ err # Raised("stagein")
          => InCopies = <<>>
    /\ Logged("stageout_done") =>
          LET o == local_stageout.targets
              s == local_stageout.staged_targets
              n == Len(LeafSeq(o))
          IN  /\ Len(LeafSeq(s)) = n
              /\ OutCopies = OutPairs(o, s, n)
              /\ Len(OutCopies) + Len(warnings) = n

\* a run that staged the five leaves of FiveLeaves in, and out again
C11_Witness ==
    /\ pc = "done"
    /\ stagein_info # None
    /\ stagein_info.targets = FiveLeaves
    /\ Len(InCopies) = 5
    /\ Logged("stageout_done")
    /\ local_stageout.targets = FiveLeaves
    /\ Len(OutCopies) = 5

\* staged is orig with every leaf replaced by the child of stage_dir named
\* after the unique basename of the leaf
RECURSIVE StagedAlike(_, _, _)
StagedAlike(orig, staged, stage_dir) ==
    /\ staged.kind = orig.kind
    /\ CASE orig.kind = "leaf" ->
                staged.path = <<stage_dir, orig.unique_basename>>
         [] orig.kind = "coll" ->
                StagedAlike(orig.targets, staged.targets, stage_dir)
         [] OTHER ->
                /\ Len(staged.items) = Len(orig.items)
                /\ orig.kind = "dict" => staged.keys = orig.keys
                /\ \A i \in 1..Len(orig.items) :
                      StagedAlike(orig.items[i], staged.items[i], stage_dir)

StageInfos == { stagein_info, stageout_info, local_stageout } \ { None }

\* C12: in every StageInfo recorded by stagein or prepare_stageout, targets
\* and staged_targets have the same shape, and each staged leaf is at
\* stage_dir / unique_basename of the original leaf at the same position
C12_StagedShape ==
    \A info \in StageInfos :
        StagedAlike(info.targets, info.staged_targets, info.stage_dir)

\* both StageInfos recorded, one of them for a mapping with a collection
C12_Witness ==
    /\ stagein_info # None
    /\ stagein_info.targets = FiveLeaves
    /\ stageout_info # None
    /\ stageout_info.targets = List(<<A, D>>)

\* two leaves of the structure at different paths have the same unique
\* basename
Colliding(s) ==
    \E i, j \in 1..Len(LeafSeq(s)) :
        /\ LeafSeq(s)[i].path # LeafSeq(s)[j].path
        /\ LeafSeq(s)[i].unique_basename = LeafSeq(s)[j].unique_basename

\* C13: staging a structure in which two distinct leaves have the same
\* unique basename fails, so that no StageInfo is recorded for it, no two
\* distinct leaves of a staged structure have the same staged path, and no
\* staged copy overwrites the staged copy of another leaf
C13_CollisionFails ==
    /\ \A info \in StageInfos :
          /\ ~Colliding(info.targets)
          /\ \A i, j \in 1..Len(LeafSeq(info.targets)) :
                LeafSeq(info.targets)[i].path # LeafSeq(info.targets)[j].path
                   => LeafSeq(info.staged_targets)[i].path
                         # LeafSeq(info.staged_targets)[j].path
    /\ \A i, j \in 1..Len(InCopies) :
          InCopies[i].dst = InCopies[j].dst => InCopies[i].src = InCopies[j].src

\* the number of leaves the while loop of stageout() has taken so far
Taken ==
    IF local_stageout = None \/ ~Logged("stageout") THEN 0
    ELSE Len(LeafSeq(local_stageout.targets)) - Len(Leaves(flat_orig))

\* the run was ended by the copy of a staged output
CopyRaised == err = Raised("stageout")

\* C14: the stage-out is best-effort per leaf: of the leaves taken so far,
\* each one whose staged file exists has been copied back to its original
\* (the last one excepted when its copy raised), each one whose staged
\* file is missing has given exactly one warning and no copy, and a
\* missing staged file never ends the run with an error
C14_BestEffortStageout ==
    local_stageout # None =>
        LET o == local_stageout.targets
            s == local_stageout.staged_targets
            done == IF CopyRaised THEN Taken - 1 ELSE Taken
        IN  /\ OutCopies = OutPairs(o, s, done)
            /\ warnings = [j \in 1..Len(Absent(s, Taken)) |->
                              LeafSeq(s)[Absent(s, Taken)[j]].path]
            /\ CopyRaised => LeafSeq(s)[Taken].path \in existing
            /\ pc = "done" => Taken = Len(LeafSeq(o))

\* a run of two outputs of which one was not written: it succeeds with
\* one warning and one copy
C14_Witness ==
    /\ pc = "done"
    /\ local_stageout # None
    /\ local_stageout.targets = List(<<A, B>>)
    /\ existing = { <<"stageout", "h2_b">> }
    /\ warnings = << <<"stageout", "h1_a">> >>
    /\ OutCopies = << [op |-> "copy_from_local",
                       src |-> <<"stageout", "h2_b">>, dst |-> B.path] >>

\* the mask of a staging direction is empty or selects nothing
NothingSelected(mask, struct) ==
    ~Truthy(mask) \/ ~Truthy(mask_struct(mask, struct))

\* C15: when the stage-in (stage-out) mask is empty or selects nothing,
\* that direction is skipped: no StageInfo is recorded for it, it copies
\* nothing and warns about nothing, it does not fail, and the command is
\* still built and run
C15_EmptyMaskSkips ==
    /\ NothingSelected(task.stagein_mask, task.input) =>
          /\ stagein_info = None
          /\ InCopies = <<>>
          /\ pc # "stagein_loop"
          /\ err # Raised("stagein")
    /\ NothingSelected(task.stageout_mask, task.output) =>
          /\ stageout_info = None
          /\ local_stageout = None
          /\ OutCopies = <<>>
          /\ warnings = <<>>
          /\ ~Logged("stageout")
          /\ err # Raised("stageout")
    /\ NothingSelected(task.stagein_mask, task.input) =>
          /\ Logged("stagein") => Logged("stagein_done")
          /\ pc = "done" => Logged("cmd") /\ Logged("subprocess_exit")

\* a finished run with staging directories whose masks select nothing
C15_Witness ==
    /\ pc = "done"
    /\ task.stagein_dir_name = "stagein"
    /\ task.stagein_mask = Mask(<<FALSE, FALSE>>)
    /\ task.stageout_dir_name = "stageout"
    /\ task.stageout_mask = False
    /\ Logged("cmd")
    /\ code = <<0>>
    /\ copies = <<>>

\* ------------------------------------------------------------------------
\* properties of the keys and of Sandbox.new

Called(op) == kpc = "done" /\ kres.op = op

Range(seq) == { seq[i] : i \in DOMAIN seq }

\* the classes below c in the class tree, at any depth
RECURSIVE Descendants(_)
Descendants(c) ==
    UNION { {d} \cup Descendants(d) : d \in Range(registry[c].subclasses) }

\* the backends carrying the tag type
Tagged(type) ==
    { c \in Descendants("Sandbox") : registry[c].sandbox_type = type }

\* the delimiter stands at position i of the string
DelimiterAt(str, i) ==
    i \in 1..(Len(str) - 1) /\ str[i] = ":" /\ str[i + 1] = ":"

\* the string has a delimiter, and neither what stands before its first
\* delimiter nor what stands after it is empty or blank
HasTypeAndName(str) ==
    \E i \in 1..Len(str) :
        /\ DelimiterAt(str, i)
        /\ \A j \in 1..(i - 1) : ~DelimiterAt(str, j)
        /\ \E j \in 1..(i - 1) : str[j] # " "
        /\ \E j \in (i + 2)..Len(str) : str[j] # " "

\* C16: Sandbox.new validates and splits the key and instantiates the
\* backend whose sandbox_type equals the type of the key, with the name of
\* the key; when no subclass of Sandbox at any depth carries that type it
\* raises the error for an unknown type and instantiates nothing
C16_NewFindsBackendOrFails ==
    Called("new") /\ kres.out.raised # "format" =>
        /\ check_key(kkey)
        /\ HasTypeAndName(kkey)
        /\ LET type == split_key(kkey)[1]
               name == split_key(kkey)[2]
           IN  IF Tagged(type) # {}
               THEN /\ kres.out.raised = "none"
                    /\ kres.out.inst.cls \in Tagged(type)
                    /\ kres.out.inst.sandbox_type = type
                    /\ kres.out.inst.name = name
               ELSE /\ kres.out.raised = "unknown_type"
                    /\ kres.out.inst = NoSandbox
                    /\ "instantiate" \notin Range(kres.out.steps)

\* Sandbox.new of the key d::b while no backend has the type d
C16_Witness ==
    /\ Called("new")
    /\ kkey = <<"d", ":", ":", "b">>
    /\ "D" \notin DOMAIN registry
    /\ kres.out.raised = "unknown_type"
    /\ kres.out.inst = NoSandbox

\* the position of a class in the order of the class statements
Defined(c) == CHOOSE i \in DOMAIN ClassOrder : ClassOrder[i] = c

\* C17: the lookup of Sandbox.new is decided by the equality of the tags
\* and the order of registration alone: of the backends carrying the type
\* of the key, the one that was defined first is instantiated
C17_FirstRegisteredWins ==
    Called("new") /\ kres.out.raised = "none" =>
        \A c \in Tagged(kres.out.inst.sandbox_type) :
            Defined(kres.out.inst.cls) <= Defined(c)

Parent(c) ==
    CHOOSE p \in DOMAIN registry : c \in Range(registry[p].subclasses)

\* the way from Sandbox down to the class: at each class the position of
\* the next one among the subclasses
RECURSIVE PathOf(_)
PathOf(c) ==
    IF c = "Sandbox" THEN <<>>
    ELSE Append(PathOf(Parent(c)),
                CHOOSE i \in DOMAIN registry[Parent(c)].subclasses :
                    registry[Parent(c)].subclasses[i] = c)

\* the sequence p is before q in the dictionary order, or equal to it
RECURSIVE LexLeq(_, _)
LexLeq(p, q) ==
    IF p = <<>> THEN TRUE
    ELSE IF q = <<>> THEN FALSE
    ELSE Head(p) < Head(q) \/ (Head(p) = Head(q) /\ LexLeq(Tail(p), Tail(q)))

\* the walk over the subclasses meets class c before class d, or c = d
MetBefore(c, d) ==
    \/ Len(PathOf(c)) < Len(PathOf(d))
    \/ Len(PathOf(c)) = Len(PathOf(d)) /\ LexLeq(PathOf(c), PathOf(d))

\* C17 (amended): the position in the class hierarchy decides between the
\* backends carrying the type of the key: the one nearest to Sandbox is
\* instantiated, whenever it was defined, and of those at the same depth
\* the one whose line of ancestors comes first among the subclasses
C17_NearestBackendWins ==
    Called("new") /\ kres.out.raised = "none" =>
        /\ kres.out.inst.cls \in Tagged(kres.out.inst.sandbox_type)
        /\ \A c \in Tagged(kres.out.inst.sandbox_type) :
              MetBefore(kres.out.inst.cls, c)

\* the backend D2 directly below Sandbox is instantiated although D, of
\* the same type, was defined before it
C17_Witness ==
    /\ Called("new")
    /\ kres.out.raised = "none"
    /\ kres.out.inst.cls = "D2"
    /\ "D" \in Tagged(<<"d">>)
    /\ Defined("D") < Defined("D2")

\* str.split(delimiter) without a limit: every delimiter splits
RECURSIVE SplitAll(_)
SplitAll(str) ==
    IF Len(split1(str)) = 1 THEN <<str>>
    ELSE <<split1(str)[1]>> \o SplitAll(split1(str)[2])

\* the key splits on the delimiter into exactly two parts, none of them
\* empty or blank
TwoParts(key) ==
    /\ Len(SplitAll(key)) = 2
    /\ \A i \in 1..2 : \E j \in DOMAIN SplitAll(key)[i] : SplitAll(key)[i][j] # " "

C19_CommaRejectedFirst ==
    Contains(kkey, ",") =>
        /\ Called("check_key") =>
              /\ kres.out.value = FALSE
              /\ kres.out.raised = IF kres.silent THEN "none" ELSE "format"
        /\ Called("new") =>
              /\ kres.out.raised = "format"
              /\ kres.out.steps = <<"check_key">>
              /\ kres.out.inst = NoSandbox
        /\ Called("remove_type") =>
              /\ kres.out.raised = "format"
              /\ kres.out.steps = <<"check_key">>

\* Sandbox.new of b::b, : without the comma the key names the backend b
C19_Witness ==
    /\ Called("new")
    /\ kkey = <<"b", ":", ":", "b", ",">>
    /\ "B" \in DOMAIN registry
    /\ kres.out.raised = "format"
    /\ kres.out.steps = <<"check_key">>

\* a type or a name of the round trip: not empty, not blank, without the
\* delimiter and without a comma
ValidPart(str) ==
    /\ \E j \in DOMAIN str : str[j] # " "
    /\ \A j \in DOMAIN str : ~DelimiterAt(str, j)
    /\ ~Contains(str, ",")

\* C20: for every type t and name n that are not empty, not blank and
\* contain neither the delimiter nor a comma, split_key(join_key(t, n))
\* is (t, n) and check_key accepts join_key(t, n)
C20_RoundTrip ==
    kparts # <<>> /\ ValidPart(kparts[1]) /\ ValidPart(kparts[2]) =>
        /\ kpc # "parts" => kkey = kparts[1] \o delimiter \o kparts[2]
        /\ Called("split_key") =>
              kres.raised = "none" /\ kres.parts = kparts
        /\ Called("check_key") =>
              kres.out.raised = "none" /\ kres.out.value = TRUE

\* ------------------------------------------------------------------------
\* properties of the task after a failed resolution

\* the ways the resolution fails: no sandbox where one is required, a
\* malformed key, a type without backend
Failures == { "missing", "format", "unknown_type" }

\* C21: a failed resolution is not remembered as a successful one: while
\* the last resolution of the task is a failed one, every non-forced access
\* of effective_sandbox, sandbox_inst, sandbox_proxy, is_sandboxed() or env
\* fails with the error of the resolution, and neither is_sandboxed() nor
\* env says that the task runs in the ambient environment
C21_FailureFailsAgain ==
    resolution \in Failures /\ last.op # "none" /\ ~last.force =>
        /\ last.raised = resolution
        /\ ~last.sandboxed

\* ------------------------------------------------------------------------
\* properties of the entry into a sandbox

\* the variables that must not be empty when the module is loaded with
\* LAW_SANDBOX_SWITCHED set
RequiredInSandbox ==
    { "LAW_SANDBOX", "LAW_SANDBOX_TASK_ID", "LAW_SANDBOX_WORKER_ID",
      "LAW_SANDBOX_WORKER_FIRST_TASK_ID" }

\* C22: the writer and the reader of the sandbox variables agree: whenever
\* _get_env sets LAW_SANDBOX_SWITCHED to 1 for a sandbox with a task, its
\* default variables hold a value that is not empty for every variable the
\* start-up of the module requires, so that a process started with them in
\* the sandbox loads the module without an exception
C22_DefaultsPassStartUp ==
    /\ epc \in {"env", "started"}
    /\ esandbox.task # NoOwner
    /\ getenv(eenv.defaults, "LAW_SANDBOX_SWITCHED") = <<"1">>
    => /\ \A v \in RequiredInSandbox :
             v \in DOMAIN eenv.defaults /\ eenv.defaults[v] # <<>>
       /\ epc = "started" /\ eenv.env = eenv.defaults =>
             estart.raised = "none"

\* ------------------------------------------------------------------------
\* properties of the attributes of the task

\* C23: whatever calls of _initialize_sandbox were made (first, repeated,
\* forced, succeeding or failing), _sandbox_inst is set if and only if
\* _sandbox_proxy is set; when they are set, _effective_sandbox is not
\* empty, it is the key of the instance, and it is not in the ambient list
\* _current_sandbox; an effective sandbox of NO_STR comes with both unset
C23_InstAndProxyTogether ==
    /\ _sandbox_inst # NoSandbox <=> _sandbox_proxy # NoSandbox
    /\ _sandbox_inst # NoSandbox =>
          /\ ~IsEmpty(_effective_sandbox)
          /\ key_of(_sandbox_inst) = _effective_sandbox
          /\ ~InCurrentSandbox(_effective_sandbox)
          /\ _sandbox_proxy.serial = _sandbox_inst.serial
    /\ _effective_sandbox = NO_STR =>
          _sandbox_inst = NoSandbox /\ _sandbox_proxy = NoSandbox

\* a forced second resolution, in a process whose LAW_SANDBOX names another
\* sandbox, has built instance and proxy anew
C23_Witness ==
    /\ ~_sandbox_switched
    /\ _current_sandbox = <<KeyBX>>
    /\ _effective_sandbox = KeyDY
    /\ last.force
    /\ counts.resolve = 2
    /\ _sandbox_inst # NoSandbox
    /\ _sandbox_proxy # NoSandbox
    /\ _sandbox_proxy.serial = 2

====
